---- MODULE Spec2Model ----
(***************************************************************************)
(* FirebaseDriver (src/src/drivers/FirebaseDriver.ts): one adapter         *)
(* instance over one Firestore collection.                                *)
(*                                                                         *)
(* Every data operation is an async method.  A call occupies a slot and    *)
(* moves through the places where the method can be suspended:             *)
(*   "read"   awaiting getDocs / getDoc,                                   *)
(*   "loop"   resumed, about to run the head of the for..of loop,          *)
(*   "write"  awaiting setDoc / updateDoc / deleteDoc,                     *)
(*   "done"   settled (resolved or rejected), not yet observed by caller.  *)
(* Code between two awaits runs without interleaving (one JS thread), so   *)
(* it is one step.  connect() and disconnect() contain no await and are    *)
(* one step each.  The backend applies each request atomically at the      *)
(* moment it answers; requests of different calls are answered in any      *)
(* order.                                                                  *)
(*                                                                         *)
(* Values.  An identifier `${Date.now()}_${suffix}` is the pair            *)
(* <<ms, suffix>> (the suffix is base-36, so the text determines the       *)
(* pair); the empty string is <<>>.  An ISO-8601 timestamp is the tagged   *)
(* instant <<"iso", ms>>: toISOString is fixed-width UTC, so its text      *)
(* order is the order of the instants.  Date.now() is read from `now`,     *)
(* which only moves forward.                                               *)
(***************************************************************************)
EXTENDS Integers, Sequences, FiniteSets, TLC

VARIABLES
    app,            \* this.app is non-null
    db,             \* this.db is non-null
    collectionRef,  \* this.collectionRef is non-null
    store,          \* the Firestore collection: document id -> document data
    now,            \* the wall clock, in ms
    calls,          \* the data operations in flight, one per slot
    lifecycle,      \* the last two lifecycle calls, oldest first
    ncalls          \* number of calls made so far

vars == <<app, db, collectionRef, store, now, calls, lifecycle, ncalls>>

\* ---------------------------------------------------------------- bounds
\* the clock runs from 0 to MaxClock; the collection holds at most MaxRecords
\* records; at most MaxCalls calls of public methods are made in a run
MaxClock == 1
MaxRecords == 2
MaxCalls == 4

\* at most two data operations are in flight at a time
Slots == {1, 2}

\* the suffixes Math.random() can yield
Suffixes == {"k", "m"}

\* ---------------------------------------------------------------- values
EmptyRec == [k \in {} |-> TRUE]
Null == [null |-> TRUE]
Reserved == {"_id", "_createdAt", "_updatedAt"}

ISO(t) == <<"iso", t>>
Instant(s) == s[2]

\* an identifier and a time the caller made up
CallerId == <<0, "caller">>
CallerIso == ISO(0 - 1)

\* { ...a, ...b }
Spread(a, b) ==
    [k \in (DOMAIN a) \cup (DOMAIN b) |-> IF k \in DOMAIN b THEN b[k] ELSE a[k]]

\* delete obj[key]
DeleteKey(obj, key) == [k \in (DOMAIN obj) \ {key} |-> obj[k]]

\* queryObj[key] of a query given as its entries; undefined is the empty string
Lookup(queryObj, key) ==
    IF \E n \in 1..Len(queryObj) : queryObj[n][1] = key
    THEN LET n == CHOOSE m \in 1..Len(queryObj) : queryObj[m][1] = key
         IN queryObj[n][2]
    ELSE <<>>

\* JS truthiness of an identifier string
Truthy(v) == v # <<>>

RECURSIVE SeqsOf(_)
SeqsOf(S) ==
    IF S = {} THEN {<<>>}
    ELSE UNION {{<<x>> \o s : s \in SeqsOf(S \ {x})} : x \in S}

\* ------------------------------------------------------- inputs of calls
\* the records and update data callers pass: with and without the field
\* "name", and one that carries the three reserved fields itself
DataSet ==
    { EmptyRec,
      [k \in {"name"} |-> "a"],
      [k \in {"name"} \cup Reserved |->
          CASE k = "name" -> "b"
            [] k = "_id" -> CallerId
            [] OTHER -> CallerIso] }

\* the queries callers pass, as Object.entries lists them: by name, by a
\* stored identifier, by one that is not stored, by the empty string, and by
\* identifier and name together
QuerySet ==
    { <<>>, << <<"name", "a">> >> }
    \cup { << <<"_id", i>> >> : i \in (DOMAIN store) \cup {CallerId, <<>>} }
    \cup { << <<"_id", i>>, <<"name", "a">> >> : i \in DOMAIN store }

\* the queries passed to update and delete: everything, by name, by a stored
\* identifier
WriteQuerySet ==
    { <<>>, << <<"name", "a">> >> } \cup { << <<"_id", i>> >> : i \in DOMAIN store }

\* ---------------------------------------------------------------- calls
Idle ==
    [ op |-> "none", pc |-> "idle", queryObj |-> <<>>, data |-> EmptyRec,
      records |-> <<>>, docRef |-> <<>>, pending |-> EmptyRec, count |-> 0, result |-> Null,
      err |-> "none", reqs |-> 0, failed |-> FALSE, pre |-> EmptyRec, alone |-> FALSE ]

InFlight(s) == calls[s].pc # "idle"

\* a call that is in flight while another call is made no longer runs alone
Disturb(c) == IF c.pc = "idle" THEN c ELSE [c EXCEPT !.alone = FALSE]

NewCall(p, op, queryObj, data) ==
    [ Idle EXCEPT !.op = op, !.queryObj = queryObj, !.data = data,
                  !.pre = IF op \in {"update", "delete", "clear"} THEN store ELSE EmptyRec,
                  !.alone = \A s \in Slots \ {p} : ~InFlight(s) ]

\* the methods whose calls overlap: a call is made while another is in flight
\* only when both are of these
Overlapping == {"update", "delete"}

\* slots are filled from the lowest: a slot says nothing about the call in it
Compact(cs) ==
    LET live == {s \in Slots : cs[s].pc # "idle"}
        rank(s) == Cardinality({t \in live : t <= s})
    IN  [s \in Slots |->
            IF \E t \in live : rank(t) = s
            THEN cs[CHOOSE t \in live : rank(t) = s]
            ELSE Idle]

Begin(p, c) ==
    /\ ~InFlight(p)
    /\ \A s \in Slots : s < p => InFlight(s)
    /\ \A s \in Slots : InFlight(s) => {c.op, calls[s].op} \subseteq Overlapping
    /\ ncalls < MaxCalls
    /\ ncalls' = ncalls + 1
    /\ calls' = [s \in Slots |-> IF s = p THEN c ELSE Disturb(calls[s])]

Settle(c, result, err) == [c EXCEPT !.pc = "done", !.result = result, !.err = err]

\* a method that catches the failure of a write and goes on with the next record
Throw_Skips(c) == [c EXCEPT !.pc = "loop", !.records = IF @ = <<>> THEN @ ELSE Tail(@)]

\* an awaited request is rejected by the backend: no method catches it, so
\* the rejection ends the method and is the method's own
Throw(c) == Settle(c, Null, "BackendFailure")

\* ensureConnected(): TRUE when it returns, FALSE when it throws
ensureConnected == ~(~db \/ ~collectionRef)

Rejected(p, op, queryObj, data) ==
    Begin(p, Settle(NewCall(p, op, queryObj, data), Null, "NotConnected"))

\* the method passed its checks and awaits its first backend request
Suspend(p, op, queryObj, data, pc, docRef, pending) ==
    Begin(p, [NewCall(p, op, queryObj, data) EXCEPT
                 !.pc = pc, !.docRef = docRef, !.pending = pending, !.reqs = 1])

\* ------------------------------------------------------------- lifecycle
Log(name) == IF Len(lifecycle) < 2 THEN Append(lifecycle, name) ELSE <<lifecycle[2], name>>

LifecycleCall(name) ==
    /\ ncalls < MaxCalls
    /\ ncalls' = ncalls + 1
    /\ lifecycle' = Log(name)
    /\ calls' = [s \in Slots |-> Disturb(calls[s])]
    /\ UNCHANGED <<store, now>>

\* connect() that does not bind the collection reference
connect_NoCollection ==
    /\ app' = TRUE
    /\ db' = TRUE
    /\ collectionRef' = collectionRef
    /\ LifecycleCall("connect")

connect ==
    /\ app' = TRUE
    /\ db' = TRUE
    /\ collectionRef' = TRUE
    /\ LifecycleCall("connect")

\* disconnect() that forgets the two references ensureConnected() reads
disconnect_KeepsDb ==
    /\ db' = db
    /\ app' = FALSE
    /\ collectionRef' = collectionRef
    /\ LifecycleCall("disconnect")

disconnect ==
    /\ db' = FALSE
    /\ app' = FALSE
    /\ collectionRef' = FALSE
    /\ LifecycleCall("disconnect")

\* ------------------------------------------------------------------ set
generateId(t, suffix) == <<t, suffix>>

\* the record with the spread written last: the caller's fields win
SetRecord_CallerWins(data, id, createdAt, updatedAt) ==
    Spread([k \in Reserved |->
               CASE k = "_id" -> id
                 [] k = "_createdAt" -> ISO(createdAt)
                 [] OTHER -> ISO(updatedAt)],
           data)

\* { ...data, _id: id, _createdAt: ..., _updatedAt: ... }
SetRecord(data, id, createdAt, updatedAt) ==
    Spread(data,
           [k \in Reserved |->
               CASE k = "_id" -> id
                 [] k = "_createdAt" -> ISO(createdAt)
                 [] OTHER -> ISO(updatedAt)])

\* Date.now() and the two new Date() are three readings of the clock, which
\* may move between them.  The record is built before setDoc is awaited.
set(p, data, suffix, t1, t2) ==
    /\ IF ensureConnected
       THEN /\ Cardinality(DOMAIN store)
                 + Cardinality({s \in Slots : calls[s].op = "set" /\ calls[s].pc = "write"})
               < MaxRecords
            /\ t1 \in now..MaxClock /\ t1 <= now + 1
            /\ t2 \in t1..MaxClock /\ t2 <= t1 + 1
            /\ Suspend(p, "set", <<>>, data, "write", generateId(now, suffix),
                       SetRecord(data, generateId(now, suffix), t1, t2))
            /\ now' = t2
       ELSE /\ t1 = now /\ t2 = now
            /\ Rejected(p, "set", <<>>, data)
            /\ now' = now
    /\ UNCHANGED <<app, db, collectionRef, store, lifecycle>>

\* ------------------------------------------------------------------ get
\* the documents of `ids` that satisfy where(c[1], '==', c[2])
Where(ids, c) == {i \in ids : c[1] \in DOMAIN store[i] /\ store[i][c[1]] = c[2]}

\* a query that keeps only its first constraint
QueryDocs_FirstOnly(ids, constraints) ==
    {i \in ids : Head(constraints)[1] \in DOMAIN store[i]
                    /\ store[i][Head(constraints)[1]] = Head(constraints)[2]}

\* query(collectionRef, ...constraints): every constraint narrows the result
RECURSIVE QueryDocs(_, _)
QueryDocs(ids, constraints) ==
    IF constraints = <<>> THEN ids
    ELSE QueryDocs(Where(ids, Head(constraints)), Tail(constraints))

\* get that reads the whole collection whatever the query
GetIds_All(queryObj) == DOMAIN store

\* the documents of the snapshot get(queryObj) reads
GetIds(queryObj) ==
    IF Len(queryObj) = 0 THEN DOMAIN store
    ELSE QueryDocs(DOMAIN store, queryObj)

\* snapshot.docs.map(doc => doc.data()), in whatever order the backend lists them
GetResults(queryObj) ==
    { [n \in 1..Len(o) |-> store[o[n]]] : o \in SeqsOf(GetIds(queryObj)) }

\* getOne without the point lookup: always the first result of get
GetOneResults_NoLookup(queryObj) ==
    { IF Len(results) > 0 THEN results[1] ELSE Null : results \in GetResults(queryObj) }

\* what getOne(queryObj) can return
GetOneResults(queryObj) ==
    IF Truthy(Lookup(queryObj, "_id"))
    THEN { IF Lookup(queryObj, "_id") \in DOMAIN store
           THEN store[Lookup(queryObj, "_id")] ELSE Null }
    ELSE { IF Len(results) > 0 THEN results[1] ELSE Null : results \in GetResults(queryObj) }

\* a method whose first await is a read: ensureConnected(), then the request
Read(p, op, queryObj, data) ==
    /\ IF ensureConnected
       THEN Suspend(p, op, queryObj, data, "read", <<>>, EmptyRec)
       ELSE Rejected(p, op, queryObj, data)
    /\ UNCHANGED <<app, db, collectionRef, store, now, lifecycle>>

get(p, queryObj) == Read(p, "get", queryObj, EmptyRec)

getOne(p, queryObj) == Read(p, "getOne", queryObj, EmptyRec)

update(p, queryObj, data) == Read(p, "update", queryObj, data)

delete(p, queryObj) == Read(p, "delete", queryObj, EmptyRec)

exists(p, queryObj) == Read(p, "exists", queryObj, EmptyRec)

count(p, queryObj) == Read(p, "count", queryObj, EmptyRec)

\* a clear that deletes by a query of its own instead of {}
clear_ByName(p) == Read(p, "clear", << <<"name", "a">> >>, EmptyRec)

clear(p) == Read(p, "clear", <<>>, EmptyRec)

\* the backend answers the read a call awaits
ReadReply(p) ==
    /\ calls[p].pc = "read"
    /\ LET c == calls[p] IN
       \/ /\ c.op \in {"get", "count", "update", "delete", "clear"}
          /\ \E results \in GetResults(c.queryObj) :
                calls' = [calls EXCEPT ![p] =
                    CASE c.op = "get" -> Settle(c, results, "none")
                      [] c.op = "count" -> Settle(c, Len(results), "none")
                      [] OTHER -> [c EXCEPT !.pc = "loop", !.records = results, !.count = 0]]
       \/ /\ c.op \in {"getOne", "exists"}
          /\ \E result \in GetOneResults(c.queryObj) :
                calls' = [calls EXCEPT ![p] =
                    IF c.op = "getOne" THEN Settle(c, result, "none")
                    ELSE Settle(c, result # Null, "none")]
       \/ calls' = [calls EXCEPT ![p] = Throw([c EXCEPT !.failed = TRUE])]
    /\ UNCHANGED <<app, db, collectionRef, store, now, lifecycle, ncalls>>

\* --------------------------------------------------- update, delete loops
\* the update data with the caller's _id left in
UpdateData_KeepsId(data, t) == Spread(data, [k \in {"_updatedAt"} |-> ISO(t)])

\* { ...data, _updatedAt: new Date().toISOString() } without _id
UpdateData(data, t) ==
    DeleteKey(Spread(data, [k \in {"_updatedAt"} |-> ISO(t)]), "_id")

\* the head of the for..of loop of update and delete: the next record's
\* docRef is built from this.db, and the write is requested
LoopHead(p) ==
    /\ calls[p].pc = "loop"
    /\ LET c == calls[p] IN
       calls' = [calls EXCEPT ![p] =
          IF c.records = <<>>
          THEN Settle(c, IF c.op = "clear" THEN Null ELSE c.count, "none")
          ELSE IF ~db
          THEN Settle(c, Null, "InvalidArgument")
          ELSE [c EXCEPT !.pc = "write", !.reqs = @ + 1,
                         !.docRef = Head(c.records)["_id"],
                         !.pending = IF c.op = "update" THEN UpdateData(c.data, now)
                                     ELSE EmptyRec]]
    /\ UNCHANGED <<app, db, collectionRef, store, now, lifecycle, ncalls>>

\* setDoc(docRef, record): creates or replaces the document
SetDoc(id, record) ==
    [i \in (DOMAIN store) \cup {id} |-> IF i = id THEN record ELSE store[i]]

\* a write that creates the document when there is none (setDoc with merge)
UpdateDoc_Upserts(id, updateData) ==
    [ found |-> TRUE,
      col |-> SetDoc(id, IF id \in DOMAIN store THEN Spread(store[id], updateData)
                         ELSE updateData) ]

\* a write that replaces the document by the update data (setDoc)
UpdateDoc_Replaces(id, updateData) ==
    [ found |-> id \in DOMAIN store,
      col |-> IF id \in DOMAIN store THEN [store EXCEPT ![id] = updateData] ELSE store ]

\* updateDoc(docRef, updateData): writes the named fields of an existing
\* document; when there is no such document the backend answers NOT_FOUND
\* and writes nothing
UpdateDoc(id, updateData) ==
    [ found |-> id \in DOMAIN store,
      col |-> IF id \in DOMAIN store
              THEN [store EXCEPT ![id] = Spread(@, updateData)]
              ELSE store ]

\* a deleteDoc that removes nothing
DeleteDoc_Keeps(id) == store

\* deleteDoc(docRef)
DeleteDoc(id) == [i \in (DOMAIN store) \ {id} |-> store[i]]

\* the backend applies the write a call awaits, or rejects it
WriteReply(p) ==
    /\ calls[p].pc = "write"
    /\ LET c == calls[p] IN
       \/ CASE c.op = "set" ->
                /\ store' = SetDoc(c.docRef, c.pending)
                /\ calls' = [calls EXCEPT ![p] = Settle(c, c.pending, "none")]
           [] c.op = "update" ->
                IF UpdateDoc(c.docRef, c.pending).found
                THEN /\ store' = UpdateDoc(c.docRef, c.pending).col
                     /\ calls' = [calls EXCEPT ![p] =
                            [c EXCEPT !.pc = "loop", !.records = Tail(@), !.count = @ + 1]]
                ELSE /\ store' = store
                     /\ calls' = [calls EXCEPT ![p] = Settle(c, Null, "NotFound")]
           [] OTHER ->
                /\ store' = DeleteDoc(c.docRef)
                /\ calls' = [calls EXCEPT ![p] =
                       [c EXCEPT !.pc = "loop", !.records = Tail(@), !.count = @ + 1]]
       \/ /\ store' = store
          /\ calls' = [calls EXCEPT ![p] = Throw([c EXCEPT !.failed = TRUE])]
    /\ UNCHANGED <<app, db, collectionRef, now, lifecycle, ncalls>>

\* the caller observes the settled promise
Return(p) ==
    /\ calls[p].pc = "done"
    /\ calls' = Compact([calls EXCEPT ![p] = Idle])
    /\ UNCHANGED <<app, db, collectionRef, store, now, lifecycle, ncalls>>

\* time passes
Tick ==
    /\ now < MaxClock
    /\ now' = now + 1
    /\ UNCHANGED <<app, db, collectionRef, store, calls, lifecycle, ncalls>>

\* ---------------------------------------------------------- specification
Init ==
    /\ app = FALSE
    /\ db = FALSE
    /\ collectionRef = FALSE
    /\ store = EmptyRec
    /\ now = 0
    /\ calls = [s \in Slots |-> Idle]
    /\ lifecycle = <<>>
    /\ ncalls = 0

Next ==
    \/ connect
    \/ disconnect
    \/ \E p \in Slots, data \in DataSet, suffix \in Suffixes, t1, t2 \in 0..MaxClock :
          set(p, data, suffix, t1, t2)
    \/ \E p \in Slots, queryObj \in QuerySet : get(p, queryObj)
    \/ \E p \in Slots, queryObj \in QuerySet : getOne(p, queryObj)
    \/ \E p \in Slots, queryObj \in WriteQuerySet, data \in DataSet : update(p, queryObj, data)
    \/ \E p \in Slots, queryObj \in WriteQuerySet : delete(p, queryObj)
    \/ \E p \in Slots, queryObj \in QuerySet : exists(p, queryObj)
    \/ \E p \in Slots, queryObj \in QuerySet : count(p, queryObj)
    \/ \E p \in Slots : clear(p)
    \/ \E p \in Slots : ReadReply(p)
    \/ \E p \in Slots : LoopHead(p)
    \/ \E p \in Slots : WriteReply(p)
    \/ \E p \in Slots : Return(p)
    \/ Tick

Spec == Init /\ [][Next]_vars

\* ------------------------------------------------------------ properties
\* the most recent lifecycle call was connect()
LastWasConnect == lifecycle # <<>> /\ lifecycle[Len(lifecycle)] = "connect"

\* slot p holds a call that has settled
Done(p) == calls[p].pc = "done"

\* slot p holds a call that resolved and ran with no other call in between
DoneAlone(p, op) ==
    /\ calls[p].pc = "done"
    /\ calls[p].op = op
    /\ calls[p].err = "none"
    /\ calls[p].alone

\* this step makes a call in slot p
Called(p) == calls[p].pc = "idle" /\ calls'[p].pc # "idle"

\* C1: a data operation called while the adapter is disconnected (never
\* connected, or disconnect() was the last lifecycle call) is rejected with
\* the not-connected error in the step that calls it, has issued no backend
\* request, and leaves the collection as it was.
C1_DisconnectedRejects ==
    [][\A p \in Slots :
          (Called(p) /\ ~LastWasConnect) =>
              /\ calls'[p].pc = "done"
              /\ calls'[p].err = "NotConnected"
              /\ calls'[p].reqs = 0
              /\ calls'[p].op \in {"set", "get", "getOne", "update", "delete",
                                   "exists", "count", "clear"}
              /\ store' = store]_vars

\* an update is rejected after disconnect() while the collection holds a record
C1_Witness ==
    \E p \in Slots :
        /\ Done(p)
        /\ calls[p].op = "update"
        /\ calls[p].err = "NotConnected"
        /\ lifecycle = <<"connect", "disconnect">>
        /\ store # EmptyRec

\* C2: when set(r) has resolved with no other call in between, the adapter is
\* still connected, getOne({_id: <returned _id>}) can only return the record
\* set returned, and that record has exactly r's non-reserved fields, with
\* r's values, and the three reserved fields.
C2_SetThenGetOne ==
    \A p \in Slots :
        DoneAlone(p, "set") =>
            LET r == calls[p].data
                rec == calls[p].result
            IN  /\ ensureConnected
                /\ GetOneResults(<< <<"_id", rec["_id"]>> >>) = {rec}
                /\ DOMAIN rec = ((DOMAIN r) \ Reserved) \cup Reserved
                /\ \A k \in (DOMAIN r) \ Reserved : rec[k] = r[k]

\* set resolved for a record that carries its own reserved fields and a name
C2_Witness ==
    \E p \in Slots :
        /\ DoneAlone(p, "set")
        /\ Reserved \subseteq DOMAIN calls[p].data
        /\ "name" \in DOMAIN calls[p].data
        /\ calls[p].result["_id"] \in DOMAIN store

\* C3: every set that resolves adds one record to what get({}) returns: the
\* identifier it generated is not that of a record already stored, so after
\* n sets and no delete or clear the collection holds n records.
C3_SetAddsOneRecord ==
    [][\A p \in Slots :
          (calls[p].op = "set" /\ calls[p].pc = "write" /\ calls'[p].pc = "done"
              /\ calls'[p].err = "none") =>
              /\ calls[p].docRef \notin DOMAIN store
              /\ Cardinality(DOMAIN store') = Cardinality(DOMAIN store) + 1]_vars

\* record rec has every key of queryObj, with the value queryObj gives it
MatchesQuery(rec, queryObj) ==
    \A n \in 1..Len(queryObj) :
        queryObj[n][1] \in DOMAIN rec /\ rec[queryObj[n][1]] = queryObj[n][2]

\* the identifiers of the records of collection col that match queryObj
Matching(col, queryObj) == {i \in DOMAIN col : MatchesQuery(col[i], queryObj)}

\* C4: an update(q, d) that ran with no other call in between and was
\* rejected neither as not connected nor by the backend resolves; it returns the number of records that matched q when it
\* was called (0 when none did), and every record that did not match q then
\* is stored now exactly as it was.
C4_UpdateCountAndFrame ==
    \A p \in Slots :
        (Done(p) /\ calls[p].op = "update" /\ calls[p].alone
            /\ calls[p].err \notin {"NotConnected", "BackendFailure"}) =>
            LET c == calls[p] IN
            /\ c.err = "none"
            /\ c.result = Cardinality(Matching(c.pre, c.queryObj))
            /\ \A i \in (DOMAIN c.pre) \ Matching(c.pre, c.queryObj) :
                   i \in DOMAIN store /\ store[i] = c.pre[i]

\* an update resolved with 1 while the collection holds a record it did not match
C4_Witness ==
    \E p \in Slots :
        /\ DoneAlone(p, "update")
        /\ calls[p].result = 1
        /\ \E i \in DOMAIN calls[p].pre : i \notin Matching(calls[p].pre, calls[p].queryObj)
        /\ \E i \in DOMAIN store : store[i] # calls[p].pre[i]

\* C5: a delete(q) that ran with no other call in between and was rejected
\* neither as not connected nor by the backend resolves with the number of records that matched q when it was called; the
\* collection is then what it was without those records, each remaining record
\* as it was, and a get(q) made now (the adapter is still connected) can only
\* return the empty list.
C5_DeleteRemovesMatches ==
    \A p \in Slots :
        (Done(p) /\ calls[p].op = "delete" /\ calls[p].alone
            /\ calls[p].err \notin {"NotConnected", "BackendFailure"}) =>
            LET c == calls[p] IN
            /\ c.err = "none"
            /\ c.result = Cardinality(Matching(c.pre, c.queryObj))
            /\ DOMAIN store = (DOMAIN c.pre) \ Matching(c.pre, c.queryObj)
            /\ \A i \in DOMAIN store : store[i] = c.pre[i]
            /\ ensureConnected
            /\ GetResults(c.queryObj) = {<<>>}

\* a delete resolved with 1 and left a record that did not match
C5_Witness ==
    \E p \in Slots :
        /\ DoneAlone(p, "delete")
        /\ calls[p].result = 1
        /\ Cardinality(DOMAIN calls[p].pre) = 2
        /\ Cardinality(DOMAIN store) = 1

\* C6: every stored record carries, as _id, the identifier of the document it
\* is stored under, which is the one set generated for it: no update changes
\* _id, whatever its data carries.
C6_IdImmutable ==
    \A i \in DOMAIN store : "_id" \in DOMAIN store[i] /\ store[i]["_id"] = i

\* an update whose data carries an _id of its own has written a record
C6_Witness ==
    \E p \in Slots :
        /\ calls[p].op = "update"
        /\ calls[p].count >= 1
        /\ "_id" \in DOMAIN calls[p].data
        /\ \E i \in DOMAIN store :
               "name" \in DOMAIN store[i] /\ store[i]["name"] = calls[p].data["name"]

\* this step applies the write of the update in slot p
UpdateApplied(p) ==
    /\ calls[p].op = "update"
    /\ calls[p].pc = "write"
    /\ calls'[p].pc = "loop"

\* C7: whenever the write of an update is applied to a record, the record's
\* _updatedAt is not earlier than it was, whatever the update data carries and
\* however many updates of the record are in flight.
C7_UpdatedAtNeverDecreases ==
    [][\A p \in Slots :
          UpdateApplied(p) =>
              Instant(store'[calls[p].docRef]["_updatedAt"])
                  >= Instant(store[calls[p].docRef]["_updatedAt"])]_vars

\* the elements of a list
Range(seq) == {seq[n] : n \in 1..Len(seq)}

\* C8: a get(q) that resolved with no other call in between returned each
\* stored record that has every key of q with q's value, once, and nothing
\* else; for the empty query, every stored record.
C8_GetReturnsMatches ==
    \A p \in Slots :
        DoneAlone(p, "get") =>
            LET c == calls[p] IN
            /\ Range(c.result) = {store[i] : i \in Matching(store, c.queryObj)}
            /\ Len(c.result) = Cardinality(Matching(store, c.queryObj))
            /\ c.queryObj = <<>> => Len(c.result) = Cardinality(DOMAIN store)

\* a get by identifier and name returned one of the two stored records
C8_Witness ==
    \E p \in Slots :
        /\ DoneAlone(p, "get")
        /\ Len(calls[p].queryObj) = 2
        /\ Len(calls[p].result) = 1
        /\ Cardinality(DOMAIN store) = 2

\* queryObj has the key
HasKey(queryObj, key) == \E n \in 1..Len(queryObj) : queryObj[n][1] = key

AllIdle == \A s \in Slots : ~InFlight(s)

\* this step is a call of connect() made while no data operation is in flight
ConnectCalled ==
    /\ AllIdle
    /\ calls' = calls
    /\ ncalls' = ncalls + 1
    /\ lifecycle' # <<>>
    /\ lifecycle'[Len(lifecycle')] = "connect"

\* C10: with calls made one at a time, a data operation is rejected as not
\* connected exactly when the most recent lifecycle call was not connect(),
\* and a call that ran alone fails in no other way unless the backend rejects
\* one of its requests; connect(), also when the
\* adapter is already connected, leaves it connected and the collection as it
\* was.
C10_Lifecycle ==
    [][/\ \A p \in Slots :
             (Called(p) /\ AllIdle) =>
                 ((calls'[p].err = "NotConnected") <=> ~LastWasConnect)
       /\ \A p \in Slots :
             (calls'[p].pc = "done" /\ calls'[p].alone) =>
                 calls'[p].err \in {"none", "NotConnected", "BackendFailure"}
       /\ ConnectCalled => (ensureConnected' /\ store' = store)]_vars

\* after disconnect() and then connect(), a set resolved
C10_Witness ==
    \E p \in Slots :
        /\ DoneAlone(p, "set")
        /\ lifecycle = <<"disconnect", "connect">>
        /\ store # EmptyRec

\* C11: a clear() that resolved with no other call in between left the
\* collection as delete({}) leaves it, without any of the records it held:
\* a count({}) made now (the adapter is still connected) can only return 0.
C11_ClearEmpties ==
    \A p \in Slots :
        DoneAlone(p, "clear") =>
            /\ DOMAIN store = (DOMAIN calls[p].pre) \ Matching(calls[p].pre, <<>>)
            /\ store = EmptyRec
            /\ ensureConnected
            /\ \A results \in GetResults(<<>>) : Len(results) = 0

\* a clear resolved on a collection that held two records
C11_Witness ==
    \E p \in Slots :
        /\ DoneAlone(p, "clear")
        /\ Cardinality(DOMAIN calls[p].pre) = 2
        /\ calls[p].reqs = 3

\* C12: an update({_id: i}, d) of a stored record i, with d naming no reserved
\* field, that resolved with no other call in between returned 1, and a
\* getOne({_id: i}) made now can only return a record with d's values for the
\* fields d names, the values record i had for every other field but
\* _updatedAt (so the same _id and _createdAt), and an _updatedAt not earlier
\* than the one it had.
C12_UpdateById ==
    \A p \in Slots :
        (/\ DoneAlone(p, "update")
         /\ Len(calls[p].queryObj) = 1
         /\ calls[p].queryObj[1][1] = "_id"
         /\ calls[p].queryObj[1][2] \in DOMAIN calls[p].pre
         /\ (DOMAIN calls[p].data) \cap Reserved = {}) =>
            LET c == calls[p]
                d == c.data
                old == c.pre[c.queryObj[1][2]]
            IN  /\ c.result = 1
                /\ ensureConnected
                /\ \A rec \in GetOneResults(c.queryObj) :
                       /\ rec # Null
                       /\ DOMAIN rec = (DOMAIN old) \cup (DOMAIN d)
                       /\ \A k \in DOMAIN d : rec[k] = d[k]
                       /\ \A k \in (DOMAIN old) \ ((DOMAIN d) \cup {"_updatedAt"}) :
                              rec[k] = old[k]
                       /\ Instant(rec["_updatedAt"]) >= Instant(old["_updatedAt"])

\* an update by identifier changed the name of a record and stamped it later
C12_Witness ==
    \E p \in Slots :
        /\ DoneAlone(p, "update")
        /\ Len(calls[p].queryObj) = 1
        /\ calls[p].queryObj[1][1] = "_id"
        /\ calls[p].data = [k \in {"name"} |-> "a"]
        /\ LET i == calls[p].queryObj[1][2] IN
           /\ i \in DOMAIN calls[p].pre
           /\ "name" \in DOMAIN calls[p].pre[i]
           /\ calls[p].pre[i]["name"] = "b"
           /\ store[i]["name"] = "a"
           /\ Instant(store[i]["_updatedAt"]) > Instant(calls[p].pre[i]["_updatedAt"])

\* the identifiers of the records a loop has not gone past
Remaining(c) == {rec["_id"] : rec \in Range(c.records)}

\* C13: a call one of whose requests the backend rejected has ended with that
\* failure.  When the rejected request is the write for the k-th matched
\* record of an update, delete or clear that ran with no other call in
\* between: k-1 writes were applied and one request was made per record up to
\* the k-th (no retry); the first k-1 records are updated (update) or gone
\* (delete, clear); the k-th and later records, and the records that did not
\* match, are exactly as they were.
C13_FailedWriteStops ==
    \A p \in Slots :
        LET c == calls[p]
            matched == Matching(c.pre, c.queryObj)
            processed == matched \ Remaining(c)
        IN  /\ c.failed => c.pc = "done" /\ c.err = "BackendFailure" /\ c.result = Null
            /\ (c.failed /\ c.alone /\ c.reqs >= 2 /\ c.op \in {"update", "delete", "clear"}) =>
                  /\ c.records # <<>>
                  /\ Remaining(c) \subseteq matched
                  /\ Cardinality(Remaining(c)) = Len(c.records)
                  /\ Cardinality(processed) = c.count
                  /\ c.reqs = c.count + 2
                  /\ \A i \in (DOMAIN c.pre) \ processed :
                         i \in DOMAIN store /\ store[i] = c.pre[i]
                  /\ IF c.op = "update"
                     THEN /\ DOMAIN store = DOMAIN c.pre
                          /\ \A i \in processed :
                                \E t \in 0..now : store[i] = Spread(c.pre[i], UpdateData(c.data, t))
                     ELSE DOMAIN store = (DOMAIN c.pre) \ processed

\* the write for the second of two matched records of an update was rejected
\* after the first record was changed
C13_Witness ==
    \E p \in Slots :
        /\ calls[p].failed
        /\ calls[p].alone
        /\ calls[p].op = "update"
        /\ calls[p].count = 1
        /\ Len(calls[p].records) = 1
        /\ \E i \in DOMAIN store : store[i] # calls[p].pre[i]

\* C14: a data operation that passed its connection check ends as the backend
\* decides: it resolves, or it is rejected with the failure the backend gave
\* to one of its requests.  No call made while it is suspended, disconnect()
\* included, makes it end in another way.
C14_OutcomeIsBackends ==
    \A p \in Slots :
        Done(p) => calls[p].err \in {"none", "NotConnected", "BackendFailure", "NotFound"}

\* C15: an exists(q) that resolved with no other call in between returned true
\* exactly when a count(q) made now returns a number greater than 0.
C15_ExistsIsCountPositive ==
    \A p \in Slots :
        (DoneAlone(p, "exists") /\ ensureConnected) =>
            \A results \in GetResults(calls[p].queryObj) :
                (calls[p].result = TRUE) <=> (Len(results) > 0)

\* slot p holds a call of one of `ops` whose awaited write the backend answers
\* in this step
WriteAnswered(p, ops) ==
    /\ calls[p].op \in ops
    /\ calls[p].pc = "write"
    /\ calls'[p].pc # "write"

\* C16: in every step, an identifier enters the collection only as the
\* identifier a set call writes, and leaves it only as the identifier a delete
\* or clear call deletes; the step that answers a write of an update leaves
\* the identifiers as they are, also when the record it writes to has been
\* deleted since the update read it.
C16_IdsGrowBySetShrinkByDelete ==
    [][/\ \A i \in (DOMAIN store') \ (DOMAIN store) :
              \E p \in Slots : WriteAnswered(p, {"set"}) /\ calls[p].docRef = i
       /\ \A i \in (DOMAIN store) \ (DOMAIN store') :
              \E p \in Slots : WriteAnswered(p, {"delete", "clear"}) /\ calls[p].docRef = i
       /\ \A p \in Slots :
              WriteAnswered(p, {"update"}) => DOMAIN store' = DOMAIN store]_vars

\* an update's write found its record deleted by a delete that ran meanwhile
C16_Witness ==
    \E p \in Slots :
        /\ Done(p)
        /\ calls[p].op = "update"
        /\ calls[p].err = "NotFound"
        /\ calls[p].docRef \in DOMAIN calls[p].pre
        /\ calls[p].docRef \notin DOMAIN store

\* C17: whenever the write of an update is applied to a record, the record's
\* _createdAt is what it was, whatever the update data carries.
C17_CreatedAtImmutable ==
    [][\A p \in Slots :
          UpdateApplied(p) =>
              store'[calls[p].docRef]["_createdAt"] = store[calls[p].docRef]["_createdAt"]]_vars

\* C18: when set(r) has resolved with no other call in between, the record it
\* returned is the record stored under its _id, its _createdAt and _updatedAt
\* are the same timestamp, and that timestamp is a time of the call (not
\* before the call read the clock for the identifier, not after now), whatever
\* _createdAt and _updatedAt r carries.
C18_SetStampsOneTime ==
    \A p \in Slots :
        DoneAlone(p, "set") =>
            LET rec == calls[p].result
            IN  /\ store[rec["_id"]] = rec
                /\ Instant(rec["_createdAt"]) \in rec["_id"][1]..now
                /\ Instant(rec["_updatedAt"]) \in rec["_id"][1]..now
                /\ rec["_createdAt"] = rec["_updatedAt"]

====
